---- MODULE Spec2Model ----
(***************************************************************************)
(* Model of the dual-mode authentication core of claudecodeui:             *)
(*   server/routes/janua-auth.js   OAuth2 login / callback / logout routes *)
(*   server/utils/janua-client.js  the Janua OAuth2 client                 *)
(*   server/middleware/auth.js     JWT session middleware                  *)
(* JavaScript strings are TLA+ strings; the JavaScript value `undefined`   *)
(* is the string Undefined, which no request or provider ever sends.       *)
(* Time is counted in ticks; Date.now() reads the variable now.            *)
(***************************************************************************)
EXTENDS Integers, Sequences, FiniteSets, TLC

VARIABLES
  env,          \* process.env, read at module load and by the handlers
  now,          \* the wall clock, Date.now()
  oauthStates,  \* janua-auth.js: const oauthStates = new Map()
  users,        \* the rows of the users table behind userDb
  nextId,       \* the next row id the users table hands out
  cb,           \* the /callback requests: position, query, response
  loginRes,     \* the response of the latest GET /login
  authRes,      \* the outcome of the latest authentication call
  issued,       \* every state GET /login has issued, with its expiry
  lo            \* the latest POST /logout request: position, header, response

vars == <<env, now, oauthStates, users, nextId, cb, loginRes, authRes, issued, lo>>

-----------------------------------------------------------------------------
(* Bounds of the model *)

\* The clock stops at MaxTime ticks.
MaxTime == 2

\* The number of /callback requests one behaviour holds.
MaxReq == 2

-----------------------------------------------------------------------------
(* JavaScript values *)

Undefined == "<undefined>"

\* JavaScript truthiness of a string-or-undefined value.
Truthy(v) == v \notin {Undefined, ""}

\* String.prototype.toLowerCase on the strings of the model.
ToLowerCase(s) ==
  CASE s = "Admin@Madfam.io"  -> "admin@madfam.io"
    [] s = " Admin@Madfam.io" -> " admin@madfam.io"
    [] OTHER                   -> s

\* String.prototype.trim on the strings of the model.
Trim(s) ==
  CASE s = " Admin@Madfam.io" -> "Admin@Madfam.io"
    [] s = " admin@madfam.io" -> "admin@madfam.io"
    [] OTHER                   -> s

AccessDeniedText == "Access denied. Your email is not authorized to use this application."

\* encodeURIComponent on the strings of the model: letters, digits and
\* - _ . ! ~ * ' ( ) are kept, every other character is percent-encoded.
encodeURIComponent(s) ==
  CASE s = "user cancelled" -> "user%20cancelled"
    [] s = AccessDeniedText ->
         "Access%20denied.%20Your%20email%20is%20not%20authorized%20to%20use%20this%20application."
    [] s = "Token exchange failed: invalid_grant" -> "Token%20exchange%20failed%3A%20invalid_grant"
    [] s = "Failed to get user info: invalid_token" -> "Failed%20to%20get%20user%20info%3A%20invalid_token"
    [] OTHER -> s

-----------------------------------------------------------------------------
(* Configuration: process.env *)

\* JANUA_ALLOWED_EMAILS is held as the sequence of its comma-separated
\* entries; the empty sequence is the unset (or empty, hence falsy) variable.
AllowedEmailsEnv == { <<>>, <<" Admin@Madfam.io", "">> }

Environments ==
  [ NODE_ENV            : {Undefined, "production"},
    JWT_SECRET          : {Undefined, "prod-secret"},
    VITE_IS_PLATFORM    : {Undefined, "true"},
    ALLOW_PLATFORM_MODE : {Undefined, "true"},
    JANUA_CLIENT_ID     : {Undefined, "", "jnc_id"},
    JANUA_CLIENT_SECRET : {Undefined, "jns_secret"},
    JANUA_ALLOWED_EMAILS : AllowedEmailsEnv ]

\* auth.js: const NODE_ENV = process.env.NODE_ENV || 'development'
NODE_ENV == IF Truthy(env.NODE_ENV) THEN env.NODE_ENV ELSE "development"

\* auth.js: const JWT_SECRET = process.env.JWT_SECRET || (production ? null : default)
JWT_SECRET ==
  IF Truthy(env.JWT_SECRET) THEN env.JWT_SECRET
  ELSE IF NODE_ENV = "production" THEN Undefined
  ELSE "claude-ui-dev-secret-change-in-production"

\* A slip: the module loads without the fail-fast.
StartupExit_Never == FALSE

\* auth.js: the fail-fast at module load; the process serves only when it did not exit.
StartupExit == NODE_ENV = "production" /\ ~Truthy(JWT_SECRET)

Alive == ~StartupExit

\* auth.js: const JWT_EXPIRATION = '8h', in ticks.
JWT_EXPIRATION == 2

\* janua-auth.js: expiresAt = Date.now() + 10 * 60 * 1000, in ticks.
STATE_TTL == 1

-----------------------------------------------------------------------------
(* server/utils/janua-client.js *)

clientId == env.JANUA_CLIENT_ID
clientSecret == env.JANUA_CLIENT_SECRET

\* A slip: the configuration is never checked.
isConfigured_AlwaysTrue == TRUE

\* isConfigured(): !!(this.clientId && this.clientSecret)
isConfigured == Truthy(clientId) /\ Truthy(clientSecret)

\* getAuthorizationUrl(state)
getAuthorizationUrl(state) ==
  [ endpoint      |-> "/api/v1/oauth/authorize",
    client_id     |-> clientId,
    response_type |-> "code",
    scope         |-> "openid profile email agent:view agent:control",
    state         |-> state ]

\* What the provider can answer to the token request: response.ok with a
\* token response, which names the scopes it granted (here openid and
\* profile, less than getAuthorizationUrl asked for), or a non-ok status
\* whose body becomes the Error message.
ExchangeOutcomes == { [ok |-> TRUE,  body |-> "access_token", scope |-> {"openid", "profile"}],
                      [ok |-> FALSE, body |-> "invalid_grant", scope |-> {}] }

\* exchangeCodeForToken: the message of the Error thrown on a non-ok response.
ExchangeErrorMessage(body) == "Token exchange failed: " \o body

\* The profiles the provider's userinfo endpoint can return.
Profiles ==
  { [sub |-> "sub-admin",   email |-> "Admin@Madfam.io"],
    [sub |-> "sub-mallory", email |-> "admin@madfam.io"],
    [sub |-> "sub-eve",     email |-> "eve@evil.io"],
    [sub |-> "sub-anon",    email |-> Undefined] }

UserInfoOutcomes ==
  { [ok |-> TRUE, body |-> "profile", profile |-> p] : p \in Profiles } \cup
  { [ok |-> FALSE, body |-> "invalid_token", profile |-> [sub |-> "", email |-> Undefined]] }

\* getUserInfo: the message of the Error thrown on a non-ok response.
UserInfoErrorMessage(body) == "Failed to get user info: " \o body

-----------------------------------------------------------------------------
(* The Credential Store: userDb of server/database/db.js *)

NeverLoggedIn == 0 - 1

\* userDb.getUserByUsername(username): the rows with that username (none or one).
getUserByUsername(username) == { users[i] : i \in { j \in DOMAIN users : users[j].username = username } }

\* userDb.getUserById(id): the rows with that id (none or one).
getUserById(id) == { users[i] : i \in { j \in DOMAIN users : j = id } }

\* userDb.createUser(username, passwordHash, profile): a new row under a fresh id.
createUser(username, email) ==
  [ id |-> nextId, username |-> username, email |-> email, last_login |-> NeverLoggedIn ]

\* userDb.updateLastLogin(userId): the table after the update.
updateLastLogin(userId) == [users EXCEPT ![userId].last_login = now]

-----------------------------------------------------------------------------
(* server/middleware/auth.js: issuing session tokens *)

\* generateToken(user): jwt.sign({userId, username}, JWT_SECRET, {expiresIn}).
generateToken(user) ==
  [ userId |-> user.id, username |-> user.username,
    iat |-> now, exp |-> now + JWT_EXPIRATION, key |-> JWT_SECRET ]

\* jwt.verify(token, JWT_SECRET) of the jsonwebtoken library. The argument is
\* the set holding the token (none when it is undefined); a token is a piece
\* of the Authorization header, a sequence of atoms. It decodes only when it
\* is exactly one signed token; the signature is checked before the expiry.
jwtVerify(token) ==
  IF token \subseteq { << >> }
  THEN [ok |-> FALSE, error |-> "JsonWebTokenError: jwt must be provided", decoded |-> {}]
  ELSE IF \E w \in token : Len(w) # 1 \/ w[1].jwt = {}
  THEN [ok |-> FALSE, error |-> "JsonWebTokenError: jwt malformed", decoded |-> {}]
  ELSE LET t == CHOOSE x \in UNION { w[1].jwt : w \in token } : TRUE
       IN  IF t.key # JWT_SECRET
           THEN [ok |-> FALSE, error |-> "JsonWebTokenError: invalid signature", decoded |-> {}]
           ELSE IF now >= t.exp
           THEN [ok |-> FALSE, error |-> "TokenExpiredError: jwt expired", decoded |-> {}]
           ELSE [ok |-> TRUE, error |-> "", decoded |-> {t}]

\* The atoms of a header value: a space, a piece of text, or a signed token.
Space == [text |-> " ", jwt |-> {}]
Text(s) == [text |-> s, jwt |-> {}]
Jwt(t) == [text |-> "jwt", jwt |-> {t}]

\* String.prototype.split(' '): the pieces between the spaces, empty pieces included.
RECURSIVE Split(_)
Split(str) ==
  IF \A i \in DOMAIN str : str[i] # Space
  THEN <<str>>
  ELSE LET i == CHOOSE k \in DOMAIN str : str[k] = Space /\ \A j \in 1..(k - 1) : str[j] # Space
       IN  <<SubSeq(str, 1, i - 1)>> \o Split(SubSeq(str, i + 1, Len(str)))

\* A request header: absent, or present with a value.
NoHeader == [present |-> FALSE, value |-> << >>]
Header(v) == [present |-> TRUE, value |-> v]

\* authenticateToken: const token = authHeader && authHeader.split(' ')[1],
\* as the set holding the token when it is a string (none when undefined).
BearerToken(authHeader) ==
  IF ~authHeader.present \/ authHeader.value = << >> THEN {}
  ELSE LET parts == Split(authHeader.value)
       IN  IF Len(parts) >= 2 THEN {parts[2]} ELSE {}

\* A slip: the middleware also turns away the token of the latest logout.
TokenMissing_OrLoggedOut(token) ==
  \/ token = {} \/ token = {<< >>}
  \/ lo.pc = "done" /\ BearerToken(lo.header) = token

\* A slip: a missing token is passed on to jwt.verify.
TokenMissing_Unchecked(token) == FALSE

\* authenticateToken: if (!token)
TokenMissing(token) == token = {} \/ token = {<< >>}

\* A slip: the result of the user lookup is not tested.
UserMissing_Unchecked(user) == FALSE

\* authenticateToken: if (!user)
UserMissing(user) == user = {}

\* userDb.getFirstUser(): the first row of the table (none when it is empty).
getFirstUser ==
  { users[i] : i \in { j \in DOMAIN users : \A k \in DOMAIN users : j <= k } }

\* The ids of the rows that were removed from the users table.
Removed == (1..(nextId - 1)) \ DOMAIN users

\* The token was the one of the latest POST /logout, which had been answered.
LoggedOut(token) ==
  /\ token \notin { {}, {<< >>} }
  /\ lo.pc = "done" /\ lo.res.success
  /\ BearerToken(lo.header) = token

\* The outcome of an authentication call: the entry point, the response
\* status (0 when none was sent) and error text, whether next() was called
\* (for a WebSocket, whether an identity was returned), and the id of the
\* identity bound; with what the call met: the header, the result of
\* jwt.verify on its token ("ok" or the error thrown, "" when it was not
\* called), whether the token's user had been removed, whether the token
\* had been logged out, in platform mode the ids of the rows of the store,
\* and the scope the route required (gate, "" when it required none).
AuthOutcome(header, verify, gone, status, user) ==
  [ called |-> TRUE, via |-> "http", header |-> header,
    verify |-> IF verify.ok THEN "ok" ELSE verify.error, gone |-> gone,
    loggedOut |-> LoggedOut(BearerToken(header)), store |-> {}, gate |-> "",
    status |-> status, error |-> "", next |-> (status = 0),
    user |-> { u.id : u \in user } ]

NotVerified == [ok |-> FALSE, error |-> "", decoded |-> {}]

\* authenticateToken: catch (error) { ... json({ error: 'Invalid token' }) },
\* the error text of the response for the error jwt.verify threw.
VerifyFailureError(error) == "Invalid token"

\* A slip: platform mode without the production safeguard.
PlatformModeRefused_Never == FALSE

\* auth.js: if (NODE_ENV === 'production' && process.env.ALLOW_PLATFORM_MODE !== 'true')
PlatformModeRefused == NODE_ENV = "production" /\ env.ALLOW_PLATFORM_MODE # "true"

\* authenticateToken(req, res, next): what the call ends with.
authenticateTokenOutcome(authHeader) ==
  IF env.VITE_IS_PLATFORM = "true"
  THEN IF PlatformModeRefused
       THEN [AuthOutcome(authHeader, NotVerified, FALSE, 403, {})
                          EXCEPT !.store = DOMAIN users,
                                 !.error = "Platform mode is disabled in production. Set ALLOW_PLATFORM_MODE=true to enable."]
       ELSE IF getFirstUser = {}
       THEN [AuthOutcome(authHeader, NotVerified, FALSE, 500, {})
                          EXCEPT !.store = DOMAIN users,
                                 !.error = "Platform mode: No user found in database"]
       ELSE [AuthOutcome(authHeader, NotVerified, FALSE, 0, getFirstUser)
                          EXCEPT !.store = DOMAIN users]
  ELSE LET token == BearerToken(authHeader)
       IN  IF TokenMissing(token)
           THEN [AuthOutcome(authHeader, NotVerified, FALSE, 401, {})
                              EXCEPT !.error = "Access denied. No token provided."]
           ELSE LET verify == jwtVerify(token)
                IN  IF ~verify.ok
                    THEN [AuthOutcome(authHeader, verify, FALSE, 403, {})
                                       EXCEPT !.error = VerifyFailureError(verify.error)]
                    ELSE LET decoded == CHOOSE d \in verify.decoded : TRUE
                             user == getUserById(decoded.userId)
                             gone == decoded.userId \in Removed
                         IN  IF UserMissing(user)
                             THEN [AuthOutcome(authHeader, verify, gone, 401, {})
                                                EXCEPT !.error = "Invalid token. User not found."]
                             ELSE AuthOutcome(authHeader, verify, gone, 0, user)

\* authenticateToken(req, res, next)
authenticateToken(authHeader) ==
  /\ Alive
  /\ authRes' = authenticateTokenOutcome(authHeader)
  /\ UNCHANGED <<env, now, oauthStates, users, nextId, cb, loginRes, issued, lo>>

\* The scope sets a session token carries in its scopes claim: none for a
\* token without the claim.
TokenScopes(t) == IF "scopes" \in DOMAIN t THEN {t.scopes} ELSE {}

\* requireScope(name), on a request that passed authentication: the session
\* carries a scope set and name is not in it. A session without a scope set
\* is a local-origin session, which is exempt.
ScopeMissing(name, authHeader) ==
  \E w \in BearerToken(authHeader) :
    /\ Len(w) = 1
    /\ \E t \in w[1].jwt : \E scopes \in TokenScopes(t) : name \notin scopes

\* A request to a route behind authenticateToken and requireScope(name).
requireScope(authHeader, name) ==
  /\ Alive
  /\ LET auth == authenticateTokenOutcome(authHeader)
     IN  authRes' = IF auth.next /\ ScopeMissing(name, authHeader)
                    THEN [auth EXCEPT !.via = "scope", !.gate = name, !.status = 403,
                                      !.error = "Forbidden", !.next = FALSE, !.user = {}]
                    ELSE [auth EXCEPT !.via = "scope", !.gate = name]
  /\ UNCHANGED <<env, now, oauthStates, users, nextId, cb, loginRes, issued, lo>>

\* The outcome of an authenticateWebSocket call on the token argument: the
\* field header holds the argument, next tells whether an identity was
\* returned, and user is the userId of that identity.
WsOutcome(token, verify, gone, result) ==
  [ AuthOutcome(IF token = {} THEN NoHeader ELSE Header(CHOOSE w \in token : TRUE),
                verify, gone, 0, {})
    EXCEPT !.via = "ws", !.loggedOut = FALSE,
           !.next = (result # {}), !.user = { d.userId : d \in result } ]

\* authenticateWebSocket(token): null (no identity) or the identity returned.
authenticateWebSocket(token) ==
  /\ Alive
  /\ IF env.VITE_IS_PLATFORM = "true"
     THEN IF PlatformModeRefused
          THEN authRes' = [WsOutcome(token, NotVerified, FALSE, {}) EXCEPT !.store = DOMAIN users]
          ELSE authRes' = [WsOutcome(token, NotVerified, FALSE,
                                     { [userId |-> u.id, username |-> u.username] : u \in getFirstUser })
                             EXCEPT !.store = DOMAIN users]
     ELSE IF token \subseteq { << >> }
          THEN authRes' = WsOutcome(token, NotVerified, FALSE, {})
          ELSE LET verify == jwtVerify(token)
               IN  IF ~verify.ok
                   THEN authRes' = WsOutcome(token, verify, FALSE, {})
                   ELSE authRes' = WsOutcome(token, verify,
                                             \E d \in verify.decoded : d.userId \in Removed,
                                             verify.decoded)
  /\ UNCHANGED <<env, now, oauthStates, users, nextId, cb, loginRes, issued, lo>>

\* An administrator removes a row of the users table.
RemoveUser(id) ==
  /\ id \in DOMAIN users
  /\ users' = [ i \in DOMAIN users \ {id} |-> users[i] ]
  /\ UNCHANGED <<env, now, oauthStates, nextId, cb, loginRes, authRes, issued, lo>>

-----------------------------------------------------------------------------
(* server/routes/janua-auth.js *)

\* The state values crypto.randomBytes(32).toString('hex') can produce.
StateTokens == {"s1", "s2"}

Req == 1..MaxReq

\* The query strings of the /callback requests of the model.
Queries ==
  { [code |-> c, state |-> s, error |-> Undefined, error_description |-> Undefined] :
       c \in {"c1"}, s \in StateTokens } \cup
  { [code |-> "c1", state |-> "s1", error |-> "access_denied", error_description |-> d] :
       d \in {Undefined, "user cancelled"} } \cup
  { [code |-> "c1", state |-> "s1", error |-> "", error_description |-> "user cancelled"],
    [code |-> Undefined, state |-> "s1", error |-> Undefined, error_description |-> Undefined],
    [code |-> "c1", state |-> Undefined, error |-> Undefined, error_description |-> Undefined] }

NoQuery == [code |-> Undefined, state |-> Undefined, error |-> Undefined, error_description |-> Undefined]

\* A response of /callback: a redirect to the application root carrying an
\* error indicator or a session token.
NoResponse == [sent |-> FALSE, error |-> Undefined, session |-> {}]
RedirectError(e) == [sent |-> TRUE, error |-> e, session |-> {}]
RedirectToken(t) == [sent |-> TRUE, error |-> Undefined, session |-> {t}]

\* A /callback request before it arrives. Beside the handler's position (pc),
\* query (q) and response (res), a request records what happened while it was
\* handled: known and expired (whether its state had been issued, and had
\* outlived its TTL, when it arrived), during (the requests that were waiting
\* for the provider when it arrived), passed (it passed the state check),
\* calls (requests sent to the provider), granted (the scopes of the token
\* response), profile (the profile the provider returned) and wrote (rows of
\* the users table it created or updated).
IdleRequest ==
  [ pc |-> "idle", q |-> NoQuery, known |-> FALSE, expired |-> FALSE, during |-> {},
    passed |-> FALSE, calls |-> 0, granted |-> {}, profile |-> {}, wrote |-> {},
    res |-> NoResponse ]

\* /login: the expiry of a state issued now.
StateExpiresAt == now + STATE_TTL

\* A slip: a state that is not in the map is taken as found.
StoredState_Any(state) == { [expiresAt |-> now] }

\* /callback: const storedState = oauthStates.get(state), as the set of entries found.
StoredState(state) == { oauthStates[s] : s \in { t \in DOMAIN oauthStates : t = state } }

\* A slip: the expiry of the entry is not tested.
StateExpired_Never(storedState) == FALSE

\* /callback: Date.now() > storedState.expiresAt
StateExpired(storedState) == now > storedState.expiresAt

\* A slip: the used state is left in the map.
DeleteState_Keep(state) == oauthStates

\* /callback: oauthStates.delete(state)
DeleteState(state) == [ s \in DOMAIN oauthStates \ {state} |-> oauthStates[s] ]

\* /callback: the allow-list, from JANUA_ALLOWED_EMAILS or the default.
allowedEmails ==
  LET raw == IF env.JANUA_ALLOWED_EMAILS = <<>> THEN <<"admin@madfam.io">>
             ELSE env.JANUA_ALLOWED_EMAILS
  IN  { ToLowerCase(Trim(raw[i])) : i \in DOMAIN raw }

\* /callback: const userEmail = (userInfo.email || '').toLowerCase()
userEmail(userInfo) == ToLowerCase(IF Truthy(userInfo.email) THEN userInfo.email ELSE "")

\* A slip: every email passes the allow-list.
EmailAllowed_Everyone(userInfo) == TRUE

\* /callback: allowedEmails.includes(userEmail)
EmailAllowed(userInfo) == userEmail(userInfo) \in allowedEmails

\* A slip: the account is looked up by the email of the profile.
ExistingAccount_ByEmail(userInfo) ==
  { users[i] : i \in { j \in DOMAIN users :
                          ToLowerCase(users[j].email) = ToLowerCase(userInfo.email) } }

\* /callback: let user = userDb.getUserByUsername(userInfo.sub)
ExistingAccount(userInfo) == getUserByUsername(userInfo.sub)

\* A slip: the provider error parameter is not handled.
ErrorParam_Ignored(q) == FALSE

\* /callback: if (error)
ErrorParam(q) == Truthy(q.error)

\* GET /login
Login ==
  /\ Alive
  /\ IF ~isConfigured
     THEN /\ loginRes' = [status |-> 500, location |-> {}]
          /\ UNCHANGED <<oauthStates, issued>>
     ELSE \E state \in StateTokens \ DOMAIN issued :
            /\ oauthStates' = [ s \in DOMAIN oauthStates \cup {state} |->
                                  IF s = state THEN [expiresAt |-> StateExpiresAt]
                                  ELSE oauthStates[s] ]
            /\ issued' = [ s \in DOMAIN issued \cup {state} |->
                             IF s = state THEN StateExpiresAt ELSE issued[s] ]
            /\ loginRes' = [status |-> 302, location |-> {getAuthorizationUrl(state)}]
  /\ UNCHANGED <<env, now, users, nextId, cb, authRes, lo>>

\* GET /callback, from the arrival of the request to the first await: the
\* parameter checks, the state check and the start of the code exchange.
CallbackStart(r, q) ==
  /\ Alive
  /\ cb[r].pc = "idle"
  /\ \A p \in Req : p < r => cb[p].pc # "idle"
  /\ LET seen == [ cb[r] EXCEPT !.q = q,
                     !.known = (q.state \in DOMAIN issued),
                     !.during = { p \in Req : cb[p].pc \in {"exchange", "userinfo"} },
                     !.expired = (q.state \in DOMAIN issued /\ now > issued[q.state]) ]
         reject(e) == [ seen EXCEPT !.pc = "done", !.res = RedirectError(e) ]
     IN  IF ErrorParam(q)
         THEN /\ cb' = [cb EXCEPT ![r] = reject(encodeURIComponent(
                            IF Truthy(q.error_description) THEN q.error_description ELSE q.error))]
              /\ UNCHANGED oauthStates
         ELSE IF ~Truthy(q.code) \/ ~Truthy(q.state)
         THEN /\ cb' = [cb EXCEPT ![r] = reject("missing_parameters")]
              /\ UNCHANGED oauthStates
         ELSE IF StoredState(q.state) = {}
         THEN /\ cb' = [cb EXCEPT ![r] = reject("invalid_state")]
              /\ UNCHANGED oauthStates
         ELSE IF \E storedState \in StoredState(q.state) : StateExpired(storedState)
         THEN /\ oauthStates' = DeleteState(q.state)
              /\ cb' = [cb EXCEPT ![r] = reject("state_expired")]
         ELSE /\ oauthStates' = DeleteState(q.state)
              /\ cb' = [cb EXCEPT ![r] = [seen EXCEPT !.pc = "exchange", !.passed = TRUE, !.calls = 1]]
  /\ UNCHANGED <<env, now, users, nextId, loginRes, authRes, issued, lo>>

\* GET /callback, resumed when the provider has answered the token request:
\* on success the profile request is sent, on failure the catch block redirects.
CallbackExchanged(r, o) ==
  /\ cb[r].pc = "exchange"
  /\ IF o.ok
     THEN cb' = [cb EXCEPT ![r].pc = "userinfo", ![r].calls = 2, ![r].granted = o.scope]
     ELSE cb' = [cb EXCEPT ![r].pc = "done",
                           ![r].res = RedirectError(encodeURIComponent(ExchangeErrorMessage(o.body)))]
  /\ UNCHANGED <<env, now, oauthStates, users, nextId, loginRes, authRes, issued, lo>>

\* GET /callback, resumed when the provider has answered the profile request:
\* the allow-list check, the account lookup or creation, and the session token.
CallbackProfile(r, o) ==
  /\ cb[r].pc = "userinfo"
  /\ IF ~o.ok
     THEN /\ cb' = [cb EXCEPT ![r].pc = "done",
                              ![r].res = RedirectError(encodeURIComponent(UserInfoErrorMessage(o.body)))]
          /\ UNCHANGED <<users, nextId>>
     ELSE IF ~EmailAllowed(o.profile)
     THEN /\ cb' = [cb EXCEPT ![r].pc = "done", ![r].profile = {o.profile},
                              ![r].res = RedirectError(encodeURIComponent(AccessDeniedText))]
          /\ UNCHANGED <<users, nextId>>
     ELSE LET found == ExistingAccount(o.profile)
              user  == IF found = {} THEN createUser(o.profile.sub, o.profile.email)
                       ELSE CHOOSE u \in found : TRUE
              sessionToken == generateToken(user)
          IN  /\ IF found = {}
                 THEN /\ users' = [ i \in DOMAIN users \cup {user.id} |->
                                      IF i = user.id THEN user ELSE users[i] ]
                      /\ nextId' = nextId + 1
                 ELSE /\ users' = updateLastLogin(user.id)
                      /\ UNCHANGED nextId
              /\ cb' = [cb EXCEPT ![r].pc = "done", ![r].profile = {o.profile},
                                  ![r].wrote = {user.id},
                                  ![r].res = RedirectToken(sessionToken)]
  /\ UNCHANGED <<env, now, oauthStates, loginRes, authRes, issued, lo>>

\* januaClient.revokeToken(token): the ways the awaited fetch can end. The
\* response is not inspected, so only a fetch that fails throws.
RevokeOutcomes == {"200", "400", "fetch failed"}

RevokeThrows(o) == o = "fetch failed"

\* The responses of POST /logout: res.json({success: true, ...}), and what
\* the framework answers for a handler that ended with an error.
LogoutSuccess == [sent |-> TRUE, status |-> 200, success |-> TRUE]
LogoutFailure == [sent |-> TRUE, status |-> 500, success |-> FALSE]

NoLogout ==
  [ pc |-> "idle", header |-> NoHeader, calls |-> 0, revoke |-> "",
    res |-> [sent |-> FALSE, status |-> 0, success |-> FALSE] ]

\* A slip: the revocation is awaited outside the try block.
RevocationAborts_Uncaught(o) == RevokeThrows(o)

\* /logout: try { await januaClient.revokeToken(token) } catch (error) { ... }
\* Whether the outcome of the revocation ends the handler before res.json.
RevocationAborts(o) == FALSE

\* POST /logout, up to its first await or its response. The model holds one
\* logout request at a time.
LogoutStart(authHeader) ==
  /\ Alive
  /\ lo.pc # "revoke"
  /\ LET token == BearerToken(authHeader)
     IN  IF ~TokenMissing(token) /\ isConfigured
         THEN lo' = [NoLogout EXCEPT !.pc = "revoke", !.header = authHeader, !.calls = 1]
         ELSE lo' = [NoLogout EXCEPT !.pc = "done", !.header = authHeader, !.res = LogoutSuccess]
  /\ UNCHANGED <<env, now, oauthStates, users, nextId, cb, loginRes, authRes, issued>>

\* POST /logout, resumed when the revocation request has ended with outcome o.
LogoutRevoked(o) ==
  /\ lo.pc = "revoke"
  /\ lo' = [lo EXCEPT !.pc = "done", !.revoke = o,
                      !.res = IF RevocationAborts(o) THEN LogoutFailure ELSE LogoutSuccess]
  /\ UNCHANGED <<env, now, oauthStates, users, nextId, cb, loginRes, authRes, issued>>

\* The clock advances.
Tick ==
  /\ now < MaxTime
  /\ now' = now + 1
  /\ UNCHANGED <<env, oauthStates, users, nextId, cb, loginRes, authRes, issued, lo>>

NoAuth ==
  [ called |-> FALSE, via |-> "", header |-> NoHeader, verify |-> "", gone |-> FALSE,
    loggedOut |-> FALSE, store |-> {}, gate |-> "", status |-> 0, error |-> "", next |-> FALSE, user |-> {} ]

\* The state after the modules are loaded, under environment e.
Start(e) ==
  /\ env = e
  /\ now = 0
  /\ oauthStates = << >>
  /\ users = << >>
  /\ nextId = 1
  /\ cb = [r \in Req |-> IdleRequest]
  /\ loginRes = [status |-> 0, location |-> {}]
  /\ authRes = NoAuth
  /\ issued = << >>
  /\ lo = NoLogout

\* The OAuth2 flow: the environments differ in the client's configuration
\* and in the allow-list.
FlowEnvironments ==
  { e \in Environments : /\ e.NODE_ENV = Undefined /\ e.JWT_SECRET = Undefined
                         /\ e.VITE_IS_PLATFORM = Undefined
                         /\ e.ALLOW_PLATFORM_MODE = Undefined }

Init == \E e \in FlowEnvironments : Start(e)

Next ==
  \/ Login
  \/ \E r \in Req, q \in Queries : CallbackStart(r, q)
  \/ \E r \in Req, o \in ExchangeOutcomes : CallbackExchanged(r, o)
  \/ \E r \in Req, o \in UserInfoOutcomes : CallbackProfile(r, o)
  \/ Tick

Spec == Init /\ [][Next]_vars

\* The OAuth2 flow under the scheduling the process provides: the clock
\* advances, and a handler that waits for the provider is resumed when the
\* provider answers. Whether and when a browser sends a request is up to the
\* browser.
SpecLive ==
  /\ Init /\ [][Next]_vars
  /\ WF_vars(Tick)
  /\ WF_vars(\E r \in Req, o \in ExchangeOutcomes : CallbackExchanged(r, o))
  /\ WF_vars(\E r \in Req, o \in UserInfoOutcomes : CallbackProfile(r, o))

-----------------------------------------------------------------------------
(* The session middleware, fed by the tokens the callback issues *)

\* The environments differ in the posture, the signing secret and the
\* platform-mode flags; the client is configured.
AuthEnvironments ==
  { e \in Environments : /\ e.JANUA_CLIENT_ID = "jnc_id" /\ e.JANUA_CLIENT_SECRET = "jns_secret"
                         /\ e.JANUA_ALLOWED_EMAILS = << >> }

\* The session tokens the callbacks have delivered.
IssuedTokens == UNION { cb[r].res.session : r \in Req }

\* A token signed with a key that is not the server's.
Forged(t) == [t EXCEPT !.key = "attacker-secret"]

\* The Authorization headers of the requests of the model.
Headers ==
  { NoHeader, Header(<< >>), Header(<<Text("Bearer")>>), Header(<<Text("Bearer"), Space>>),
    Header(<<Text("Bearer"), Space, Space, Text("x")>>),
    Header(<<Text("Bearer"), Space, Text("x")>>) } \cup
  { Header(<<Text("Bearer"), Space, Jwt(t)>>) : t \in IssuedTokens } \cup
  { Header(<<Text("Bearer"), Space, Jwt(Forged(t))>>) : t \in IssuedTokens }

\* The callbacks that feed the middleware carry a code and the state s1.
\* The token arguments of the WebSocket connections of the model.
WsTokens ==
  { {}, {<< >>}, {<<Text("x")>>} } \cup
  { {<<Jwt(t)>>} : t \in IssuedTokens } \cup
  { {<<Jwt(Forged(t))>>} : t \in IssuedTokens }

AuthQueries == { q \in Queries : Truthy(q.code) /\ q.state = "s1" /\ q.error = Undefined }

\* The provider accepts the code and returns the profile of one subject.
AuthExchangeOutcomes == { o \in ExchangeOutcomes : o.ok }
AuthUserInfoOutcomes == { o \in UserInfoOutcomes : o.ok /\ o.profile.sub = "sub-admin" }

InitAuth == \E e \in AuthEnvironments : Start(e)

NextAuth ==
  \/ Login
  \/ \E r \in Req, q \in AuthQueries : CallbackStart(r, q)
  \/ \E r \in Req, o \in AuthExchangeOutcomes : CallbackExchanged(r, o)
  \/ \E r \in Req, o \in AuthUserInfoOutcomes : CallbackProfile(r, o)
  \/ \E id \in DOMAIN users : RemoveUser(id)
  \/ \E h \in Headers : authenticateToken(h)
  \/ \E token \in WsTokens : authenticateWebSocket(token)
  \/ Tick

SpecAuth == InitAuth /\ [][NextAuth]_vars

-----------------------------------------------------------------------------
(* Platform mode, over a store that callbacks of two subjects fill. No    *)
(* token is verified in platform mode, so the clock stands still.         *)

\* Platform mode is on; the environments differ in the posture, the signing
\* secret and the allow flag.
PlatformEnvironments == { e \in AuthEnvironments : e.VITE_IS_PLATFORM = "true" }

\* The callbacks carry a code and a state, and the provider returns the
\* profile of one of two subjects.
PlatformQueries == { q \in Queries : Truthy(q.code) /\ Truthy(q.state) /\ q.error = Undefined }
PlatformUserInfoOutcomes ==
  { o \in UserInfoOutcomes : o.ok /\ o.profile.sub \in {"sub-admin", "sub-mallory"} }

\* The Authorization headers and the token arguments of the requests.
PlatformHeaders ==
  { NoHeader, Header(<<Text("Bearer"), Space, Text("x")>>) } \cup
  { Header(<<Text("Bearer"), Space, Jwt(t)>>) : t \in IssuedTokens }
PlatformWsTokens == { {}, {<<Text("x")>>} } \cup { {<<Jwt(t)>>} : t \in IssuedTokens }

InitPlatform == \E e \in PlatformEnvironments : Start(e)

NextPlatform ==
  \/ Login
  \/ \E r \in Req, q \in PlatformQueries : CallbackStart(r, q)
  \/ \E r \in Req, o \in AuthExchangeOutcomes : CallbackExchanged(r, o)
  \/ \E r \in Req, o \in PlatformUserInfoOutcomes : CallbackProfile(r, o)
  \/ \E id \in DOMAIN users : RemoveUser(id)
  \/ \E h \in PlatformHeaders : authenticateToken(h)
  \/ \E token \in PlatformWsTokens : authenticateWebSocket(token)

SpecPlatform == InitPlatform /\ [][NextPlatform]_vars

-----------------------------------------------------------------------------
(* The scope-gated routes, fed by the tokens the callback issues *)

\* Development posture, platform mode off, the client configured.
ScopeEnvironments ==
  { e \in AuthEnvironments : /\ e.NODE_ENV = Undefined /\ e.JWT_SECRET = Undefined
                             /\ e.VITE_IS_PLATFORM = Undefined
                             /\ e.ALLOW_PLATFORM_MODE = Undefined }

\* The scopes the routes of the integration guide require.
RequiredScopes == {"agent:view", "agent:control"}

ScopeHeaders ==
  { NoHeader } \cup { Header(<<Text("Bearer"), Space, Jwt(t)>>) : t \in IssuedTokens }

InitScope == \E e \in ScopeEnvironments : Start(e)

NextScope ==
  \/ Login
  \/ \E r \in Req, q \in PlatformQueries : CallbackStart(r, q)
  \/ \E r \in Req, o \in AuthExchangeOutcomes : CallbackExchanged(r, o)
  \/ \E r \in Req, o \in PlatformUserInfoOutcomes : CallbackProfile(r, o)
  \/ \E h \in ScopeHeaders, name \in RequiredScopes : requireScope(h, name)
  \/ Tick

SpecScope == InitScope /\ [][NextScope]_vars

-----------------------------------------------------------------------------
(* Logout, next to the callbacks that issue tokens and the middleware that *)
(* accepts them                                                            *)

\* The environments differ in the client's configuration; the posture is
\* development and platform mode is off.
LogoutEnvironments ==
  { e \in FlowEnvironments : e.JANUA_ALLOWED_EMAILS = << >> }

\* The Authorization headers of the POST /logout requests of the model.
LogoutHeaders ==
  { NoHeader, Header(<<Text("Bearer")>>), Header(<<Text("Bearer"), Space, Text("x")>>) } \cup
  { Header(<<Text("Bearer"), Space, Jwt(t)>>) : t \in IssuedTokens }

\* The requests to protected routes carry a token a callback has issued.
SessionHeaders == { Header(<<Text("Bearer"), Space, Jwt(t)>>) : t \in IssuedTokens }

InitLogout == \E e \in LogoutEnvironments : Start(e)

NextLogout ==
  \/ Login
  \/ \E r \in Req, q \in AuthQueries : CallbackStart(r, q)
  \/ \E r \in Req, o \in AuthExchangeOutcomes : CallbackExchanged(r, o)
  \/ \E r \in Req, o \in AuthUserInfoOutcomes : CallbackProfile(r, o)
  \/ \E id \in DOMAIN users : RemoveUser(id)
  \/ \E h \in LogoutHeaders : LogoutStart(h)
  \/ \E o \in RevokeOutcomes : LogoutRevoked(o)
  \/ \E h \in SessionHeaders : authenticateToken(h)
  \/ Tick

SpecLogout == InitLogout /\ [][NextLogout]_vars

-----------------------------------------------------------------------------
(* The properties of the OAuth2 flow, checked under Spec *)

Arrived(r) == cb[r].pc # "idle"
Done(r) == cb[r].pc = "done"

\* Request r carried no provider error and both a code and a state, so that
\* its state was looked up.
ReachedStateCheck(r) ==
  /\ Arrived(r)
  /\ ~Truthy(cb[r].q.error)
  /\ Truthy(cb[r].q.code)
  /\ Truthy(cb[r].q.state)

\* The requests that presented the issued state of request r to the state
\* check before r did (requests arrive in the order of their numbers).
EarlierWithState(r) ==
  { p \in Req : /\ p < r
                /\ ReachedStateCheck(p)
                /\ cb[p].known
                /\ cb[p].q.state = cb[r].q.state }

\* The errors with which /callback reports a failed state check.
CsrfErrors == {"invalid_state", "state_expired"}

\* C1: an issued state presented to /callback with a code before its expiry
\* passes the state check exactly once: the first request that presents it
\* passes and the entry leaves oauthStates, and every later request that
\* presents it is redirected with error=invalid_state.
C1_StateConsumedOnce ==
  \A r \in Req :
    (ReachedStateCheck(r) /\ cb[r].known /\ ~cb[r].expired) =>
      IF EarlierWithState(r) = {}
      THEN cb[r].passed /\ cb[r].q.state \notin DOMAIN oauthStates
      ELSE ~cb[r].passed /\ cb[r].res = RedirectError("invalid_state")

C1_Witness ==
  \E r1, r2 \in Req :
    /\ r1 < r2
    /\ ReachedStateCheck(r1) /\ ReachedStateCheck(r2)
    /\ cb[r1].q.state = cb[r2].q.state
    /\ cb[r1].known /\ ~cb[r1].expired /\ cb[r2].known /\ ~cb[r2].expired
    /\ cb[r1].passed
    /\ cb[r2].res = RedirectError("invalid_state")

\* Requests r1 and r2 carry the same code and the same issued, unexpired
\* state, r2 arrived while r1 was waiting for the provider, and both have
\* been answered.
ConcurrentReplay(r1, r2) ==
  /\ r1 \in cb[r2].during
  /\ ReachedStateCheck(r1) /\ ReachedStateCheck(r2)
  /\ cb[r1].q.code = cb[r2].q.code
  /\ cb[r1].q.state = cb[r2].q.state
  /\ cb[r1].known /\ ~cb[r1].expired /\ cb[r2].known /\ ~cb[r2].expired
  /\ Done(r1) /\ Done(r2)

\* C2 as stated: of two concurrent callbacks with the same code and the same
\* valid state, exactly one ends with a session token and the other is rejected.
C2_ExactlyOneSession ==
  \A r1, r2 \in Req :
    ConcurrentReplay(r1, r2) =>
      \/ cb[r1].res.session # {} /\ cb[r2].res.session = {} /\ Truthy(cb[r2].res.error)
      \/ cb[r2].res.session # {} /\ cb[r1].res.session = {} /\ Truthy(cb[r1].res.error)

\* C2, amended: of two concurrent callbacks with the same code and the same
\* valid state, the one that arrived later is rejected with invalid_state
\* without a request to the provider, an account or a session token, so at
\* most one of them ends with a session token; the one that arrived first
\* ends with a session token unless the provider refuses the code or the
\* profile, or the profile's email is not on the allow-list.
C2_AtMostOneSession ==
  \A r1, r2 \in Req :
    ConcurrentReplay(r1, r2) =>
      /\ cb[r2].res = RedirectError("invalid_state")
      /\ cb[r2].calls = 0 /\ cb[r2].wrote = {}
      /\ \/ cb[r1].res.session # {}
         \/ cb[r1].calls = 1 /\ cb[r1].res.error = encodeURIComponent(ExchangeErrorMessage("invalid_grant"))
         \/ cb[r1].calls = 2 /\ cb[r1].profile = {}
              /\ cb[r1].res.error = encodeURIComponent(UserInfoErrorMessage("invalid_token"))
         \/ cb[r1].calls = 2 /\ cb[r1].profile # {}
              /\ \A p \in cb[r1].profile : userEmail(p) \notin allowedEmails
              /\ cb[r1].res.error = encodeURIComponent(AccessDeniedText)

C2_Witness ==
  \E r1, r2 \in Req :
    /\ ConcurrentReplay(r1, r2)
    /\ cb[r1].res.session # {}
    /\ cb[r2].res = RedirectError("invalid_state")

\* C3: a callback that presents a state whose TTL has elapsed is rejected,
\* whether the entry was still in oauthStates (state_expired) or not
\* (invalid_state), and no request is sent to the provider.
C3_ExpiredStateRejected ==
  \A r \in Req :
    (ReachedStateCheck(r) /\ cb[r].expired) =>
      /\ Done(r) /\ ~cb[r].passed
      /\ cb[r].calls = 0
      /\ cb[r].res.sent /\ cb[r].res.error \in CsrfErrors
      /\ cb[r].res.session = {}

C3_Witness ==
  \E r1, r2 \in Req :
    /\ ReachedStateCheck(r1) /\ cb[r1].expired
    /\ ReachedStateCheck(r2) /\ cb[r2].expired
    /\ cb[r1].res = RedirectError("state_expired")
    /\ cb[r2].res = RedirectError("invalid_state")

\* The profile's email, lower-cased, is an entry of the configured allow-list.
OnAllowList(profile) == userEmail(profile) \in allowedEmails

\* C4: a callback whose profile email is not on the allow-list creates or
\* updates no account and issues no session token, although its state check,
\* code exchange and profile fetch succeeded.
C4_DeniedEmailNoAccountNoSession ==
  \A r \in Req :
    (cb[r].profile # {} /\ \A p \in cb[r].profile : ~OnAllowList(p)) =>
      /\ cb[r].passed /\ cb[r].calls = 2
      /\ cb[r].wrote = {}
      /\ cb[r].res.session = {}
      /\ \A p \in cb[r].profile : \A i \in DOMAIN users :
           users[i].username = p.sub =>
             \E x \in Req : x # r /\ i \in cb[x].wrote

C4_Witness ==
  \E r \in Req :
    /\ Done(r) /\ cb[r].passed /\ cb[r].calls = 2
    /\ cb[r].profile # {} /\ \A p \in cb[r].profile : ~OnAllowList(p)
    /\ cb[r].res = RedirectError(encodeURIComponent(AccessDeniedText))

\* C5: a callback whose state is unknown, expired or already consumed is
\* redirected to the root with a CSRF error, and sends no request to the
\* provider, creates or updates no account and issues no session token.
C5_CsrfRejectionNoSideEffects ==
  \A r \in Req :
    ( /\ ReachedStateCheck(r)
      /\ \/ ~cb[r].known
         \/ cb[r].expired
         \/ \E p \in EarlierWithState(r) : cb[p].passed ) =>
      /\ Done(r)
      /\ cb[r].res.sent /\ cb[r].res.error \in CsrfErrors
      /\ cb[r].calls = 0
      /\ cb[r].wrote = {}
      /\ cb[r].res.session = {}

C5_Witness ==
  \E r \in Req :
    /\ ReachedStateCheck(r) /\ cb[r].known /\ ~cb[r].expired
    /\ \E p \in EarlierWithState(r) : cb[p].passed
    /\ cb[r].res = RedirectError("invalid_state")

\* The client id or the client secret is missing from the environment.
Unconfigured == ~Truthy(env.JANUA_CLIENT_ID) \/ ~Truthy(env.JANUA_CLIENT_SECRET)

\* C9: with the federated client unconfigured, GET /login answers 500 with
\* no redirect, and no state is ever recorded in oauthStates.
C9_UnconfiguredLogin ==
  Unconfigured =>
    /\ loginRes.status \in {0, 500}
    /\ loginRes.location = {}
    /\ oauthStates = << >>
    /\ issued = << >>

C9_Witness == Unconfigured /\ loginRes.status = 500

\* What a callback with a provider error surfaces: the description, or the
\* error code when there is no description.
Surfaced(q) == IF Truthy(q.error_description) THEN q.error_description ELSE q.error

\* A callback with a provider error is answered at once with the redirect
\* that surfaces the description, without passing the state check.
ErrorCallbackAnswered ==
  \A r \in Req :
    (Arrived(r) /\ Truthy(cb[r].q.error)) =>
      /\ Done(r)
      /\ cb[r].res = RedirectError(encodeURIComponent(Surfaced(cb[r].q)))
      /\ ~cb[r].passed /\ cb[r].calls = 0

\* The arrival of a callback with a provider error leaves oauthStates as it was.
ErrorCallbackKeepsStates ==
  \A r \in Req :
    (cb[r].pc = "idle" /\ cb'[r].pc # "idle" /\ Truthy(cb'[r].q.error)) =>
      oauthStates' = oauthStates

\* C10: a callback that carries a provider error is redirected to the root
\* with the error description surfaced, and oauthStates is left unchanged:
\* the state the callback carries is neither consumed nor invalidated.
C10_ProviderErrorNoStateLookup ==
  /\ []ErrorCallbackAnswered
  /\ [][ErrorCallbackKeepsStates]_vars

C10_Witness ==
  \E r \in Req :
    /\ Done(r) /\ cb[r].q.error = "access_denied"
    /\ cb[r].q.state \in DOMAIN oauthStates
    /\ cb[r].res = RedirectError("user%20cancelled")

-----------------------------------------------------------------------------
(* The properties of the session middleware, checked under SpecAuth *)

\* The latest authenticateToken call ran outside platform mode.
OutsidePlatformMode ==
  authRes.called /\ authRes.via = "http" /\ env.VITE_IS_PLATFORM # "true"

\* The call was answered with 401 and the protected handler was not invoked.
Rejected401 == authRes.status = 401 /\ ~authRes.next /\ authRes.user = {}

\* The header is absent, or its value has no non-empty second piece.
NoTokenPart(header) == BearerToken(header) \subseteq { << >> }

\* C6: outside platform mode, a request without an Authorization header, or
\* with a header that yields no token part, is answered 401 and next() is
\* not called.
C6_MissingTokenIs401 ==
  (OutsidePlatformMode /\ NoTokenPart(authRes.header)) => Rejected401

C6_Witness ==
  /\ OutsidePlatformMode /\ ~authRes.header.present
  /\ authRes.status = 401 /\ ~authRes.next
  /\ IssuedTokens # {}

\* C7 as stated: outside platform mode, a request whose bearer token fails
\* verification is answered 401, like a request without a token.
C7_InvalidTokenIs401 ==
  (OutsidePlatformMode /\ authRes.verify \notin {"", "ok"}) => Rejected401

\* C8: outside platform mode, a request that carries a valid, unexpired
\* session token of a user who was removed from the store is answered 401
\* and next() is not called.
C8_RemovedUserIs401 ==
  (OutsidePlatformMode /\ authRes.verify = "ok" /\ authRes.gone) => Rejected401

C8_Witness ==
  /\ OutsidePlatformMode /\ authRes.verify = "ok" /\ authRes.gone
  /\ authRes.status = 401

-----------------------------------------------------------------------------
(* The properties of logout, checked under SpecLogout *)

\* C11: POST /logout always reports success: whatever the header carries,
\* whether or not the client is configured, and whether the revocation
\* request succeeds, is refused by the provider or fails, the one response
\* the handler sends is {success: true}.
C11_LogoutAlwaysSucceeds ==
  /\ lo.res.sent => lo.res = LogoutSuccess
  /\ lo.pc = "done" => lo.res = LogoutSuccess

C11_Witness ==
  /\ lo.pc = "done" /\ lo.calls = 1 /\ RevokeThrows(lo.revoke)
  /\ lo.res = LogoutSuccess

\* C14: logout does not invalidate the session token locally: outside
\* platform mode, a token a callback issued that was presented to a completed
\* logout still authenticates through authenticateToken, as long as it has
\* not expired and its user is still in the store.
C14_LoggedOutTokenStillAuthenticates ==
  \A t \in IssuedTokens :
    ( /\ OutsidePlatformMode /\ authRes.loggedOut
      /\ authRes.header = Header(<<Text("Bearer"), Space, Jwt(t)>>)
      /\ authRes.verify # "TokenExpiredError: jwt expired"
      /\ authRes.error # "Invalid token. User not found." ) =>
        /\ authRes.next /\ authRes.status = 0
        /\ authRes.user = {t.userId}

C14_Witness ==
  /\ OutsidePlatformMode /\ authRes.loggedOut
  /\ \E t \in IssuedTokens : authRes.header = Header(<<Text("Bearer"), Space, Jwt(t)>>)
  /\ lo.calls = 1 /\ lo.revoke = "200"
  /\ authRes.next /\ authRes.user # {}

-----------------------------------------------------------------------------
(* The properties of identity reconciliation, checked under Spec *)

\* Request r ended with a session token.
Accepted(r) == Done(r) /\ cb[r].res.session # {}

\* The subjects the provider vouches for.
Subjects == { p.sub : p \in Profiles }

\* The accounts of the store that belong to subject sub.
AccountsOf(sub) == { i \in DOMAIN users : users[i].username = sub }

\* C12: after any interleaving of accepted callbacks the store holds at most
\* one account per subject, every accepted callback resolved to the account
\* of its own subject and was given a token for it, and two callbacks of
\* different subjects never resolved to the same account, whatever their
\* emails.
C12_OneAccountPerSubject ==
  /\ \A sub \in Subjects : Cardinality(AccountsOf(sub)) <= 1
  /\ \A r \in Req : Accepted(r) =>
        \A p \in cb[r].profile :
          /\ cb[r].wrote = AccountsOf(p.sub)
          /\ \A t \in cb[r].res.session : t.userId \in cb[r].wrote /\ t.username = p.sub
  /\ \A r1, r2 \in Req :
        (Accepted(r1) /\ Accepted(r2) /\ cb[r1].profile # cb[r2].profile) =>
          cb[r1].wrote \cap cb[r2].wrote = {}

\* Two first logins of one subject, each with its own state, were in flight
\* together and both were accepted.
C12_Witness ==
  \E r1, r2 \in Req :
    /\ r1 \in cb[r2].during
    /\ Accepted(r1) /\ Accepted(r2)
    /\ cb[r1].q.state # cb[r2].q.state
    /\ cb[r1].profile = cb[r2].profile
    /\ cb[r1].wrote = cb[r2].wrote
    /\ Cardinality(DOMAIN users) = 1

\* Request r passed the state check and was ended by the provider refusing
\* the code exchange or the profile request.
UpstreamFailed(r) == Done(r) /\ cb[r].passed /\ cb[r].profile = {}

\* The bodies of the provider's error responses.
UpstreamBodies ==
  { o.body : o \in { x \in ExchangeOutcomes : ~x.ok } } \cup
  { o.body : o \in { x \in UserInfoOutcomes : ~x.ok } }

\* The error parameter of a redirect is, as the query string carries it, a
\* text that holds a body of the provider word for word.
CarriesUpstreamBody(hint) ==
  \E body \in UpstreamBodies :
    hint \in { encodeURIComponent(body),
               encodeURIComponent(ExchangeErrorMessage(body)),
               encodeURIComponent(UserInfoErrorMessage(body)) }

\* C13 as stated: a callback ended by an upstream error creates or updates no
\* account, issues no session token, and is redirected with an error hint
\* that does not hold the provider's error body.
C13_UpstreamErrorOpaque ==
  \A r \in Req :
    UpstreamFailed(r) =>
      /\ cb[r].wrote = {} /\ cb[r].res.session = {}
      /\ cb[r].res.sent /\ cb[r].res.error # ""
      /\ ~CarriesUpstreamBody(cb[r].res.error)

-----------------------------------------------------------------------------
(* The properties of the session token, checked under SpecAuth *)

\* The latest call was authenticateToken, outside platform mode, on a
\* request that carried the issued token t.
Presented(t) ==
  OutsidePlatformMode /\ authRes.header = Header(<<Text("Bearer"), Space, Jwt(t)>>)

\* The error texts with which authenticateToken answers a token whose
\* signature does not verify.
BadSignatureReports == { VerifyFailureError("JsonWebTokenError: invalid signature") }

\* The token of user U carries the id and the username of U, verifies until
\* it expires, and the request is then bound to U unless U was removed.
TokenIdentifiesUser ==
  \A t \in IssuedTokens :
    Presented(t) =>
      /\ \E r \in Req : /\ cb[r].res.session = {t} /\ cb[r].wrote = {t.userId}
                        /\ \A p \in cb[r].profile : t.username = p.sub
      /\ authRes.verify \in {"ok", "TokenExpiredError: jwt expired"}
      /\ authRes.verify = "ok" =>
            \/ authRes.gone /\ ~authRes.next
            \/ authRes.next /\ authRes.user = {t.userId}

\* C15 as stated: a token generateToken issued for user U, verified before
\* its expiry, identifies U; verified after its expiry it is refused, and the
\* refusal is reported differently from the refusal of a bad signature.
C15_ExpiryReportedDistinctly ==
  /\ TokenIdentifiesUser
  /\ \A t \in IssuedTokens :
        (Presented(t) /\ authRes.verify = "TokenExpiredError: jwt expired") =>
          /\ ~authRes.next /\ authRes.user = {}
          /\ authRes.error \notin BadSignatureReports

\* The posture is production and no signing secret is configured.
ProductionWithoutSecret ==
  env.NODE_ENV = "production" /\ env.JWT_SECRET \in {Undefined, ""}

\* No request was ever served: no login, no callback, no logout, no
\* authentication call, and so no token issued or verified.
NothingServed ==
  /\ loginRes.status = 0
  /\ \A r \in Req : cb[r] = IdleRequest
  /\ lo = NoLogout
  /\ authRes = NoAuth
  /\ IssuedTokens = {}

\* C16: in the production posture without a signing secret the process
\* exits at startup, so that no token is ever issued or verified; and a token
\* signed with the built-in default secret exists only outside production.
C16_NoSecretNoService ==
  /\ ProductionWithoutSecret => NothingServed
  /\ \A t \in IssuedTokens :
        t.key = "claude-ui-dev-secret-change-in-production" =>
          env.NODE_ENV # "production" /\ ~Truthy(env.JWT_SECRET)
  /\ \A t \in IssuedTokens : Truthy(t.key)

C16_Witness ==
  /\ ProductionWithoutSecret /\ StartupExit
  /\ now = MaxTime /\ NothingServed

-----------------------------------------------------------------------------
(* The properties of platform mode, checked under SpecPlatform, and of the *)
(* WebSocket entry point, checked under SpecAuth                           *)

PlatformMode == env.VITE_IS_PLATFORM = "true"

\* Platform mode is permitted: the posture is not production, or the allow
\* flag is set.
PlatformPermitted == env.NODE_ENV # "production" \/ env.ALLOW_PLATFORM_MODE = "true"

\* The first row of a store that holds the rows with the ids in store.
FirstOf(store) == { i \in store : \A k \in store : i <= k }

\* C17: in platform mode no token is inspected. Where platform mode is not
\* permitted every call is refused (403 from authenticateToken, null from
\* authenticateWebSocket) and no identity is bound; where it is permitted the
\* call is bound to the first user of the store whatever it carries, and with
\* an empty store it ends in an error (500, null) and binds nothing.
C17_PlatformModeOnlyWhenPermitted ==
  (authRes.called /\ PlatformMode) =>
    /\ authRes.verify = ""
    /\ IF ~PlatformPermitted
       THEN /\ ~authRes.next /\ authRes.user = {}
            /\ authRes.via = "http" => authRes.status = 403
       ELSE IF authRes.store = {}
       THEN /\ ~authRes.next /\ authRes.user = {}
            /\ authRes.via = "http" => authRes.status = 500
       ELSE /\ authRes.next /\ authRes.user = FirstOf(authRes.store)
            /\ authRes.status = 0

C17_Witness ==
  /\ authRes.called /\ PlatformMode /\ PlatformPermitted
  /\ authRes.via = "http"
  /\ authRes.header = Header(<<Text("Bearer"), Space, Text("x")>>)
  /\ authRes.store = {1, 2} /\ authRes.next /\ authRes.user = {1}

\* C18 as stated: outside platform mode, every entry point refuses a token
\* that verifies but whose user was removed from the store.
C18_RemovedUserRefusedEverywhere ==
  (authRes.called /\ ~PlatformMode /\ authRes.verify = "ok" /\ authRes.gone) =>
    ~authRes.next /\ authRes.user = {}

-----------------------------------------------------------------------------
(* The property of the scope-gated routes, checked under SpecScope *)

\* The scopes the provider granted to the login that issued session t.
GrantedTo(t) == UNION { cb[r].granted : r \in { x \in Req : cb[x].res.session = {t} } }

\* C19 as stated: a request to a route gated by requireScope("agent:control")
\* that presents a session a federated callback issued, for a login that was
\* granted the scopes openid and profile, is answered 403 and the handler is
\* not called.
C19_ScopeGateRefusesFederatedSession ==
  \A t \in IssuedTokens :
    ( /\ authRes.called /\ authRes.via = "scope" /\ authRes.gate = "agent:control"
      /\ authRes.header = Header(<<Text("Bearer"), Space, Jwt(t)>>)
      /\ GrantedTo(t) = {"openid", "profile"} ) =>
        authRes.status = 403 /\ ~authRes.next

-----------------------------------------------------------------------------
(* The property of the last-login time, checked under Spec *)

\* The last-login time of the account of r is not older than the session
\* token r was given.
LastLoginUpdated(r) ==
  \A t \in cb[r].res.session : \A i \in cb[r].wrote :
    i \in DOMAIN users /\ users[i].last_login >= t.iat

\* An accepted callback that found its account in the store updated the
\* account's last-login time.
ReturningLoginUpdatesLastLogin ==
  \A r \in Req :
    (Accepted(r) /\ \E p \in Req : p # r /\ Accepted(p) /\ cb[p].wrote = cb[r].wrote) =>
      \A i \in cb[r].wrote : i \in DOMAIN users /\ users[i].last_login >= 0

\* C20 as stated: every accepted callback, whether it found its account or
\* created it, has updated the account's last-login time by the time its
\* session token is issued.
C20_EveryLoginUpdatesLastLogin ==
  \A r \in Req : Accepted(r) => LastLoginUpdated(r)

-----------------------------------------------------------------------------
(* The lifecycle of the handshake states, checked under SpecLive and Spec *)

\* C21 as stated: every state /login stored eventually leaves oauthStates,
\* through its first callback or, when no callback presents it, through an
\* expiry sweep.
C21_StatesEventuallyDestroyed ==
  \A s \in StateTokens : (s \in DOMAIN oauthStates) ~> (s \notin DOMAIN oauthStates)

\* What the code does instead: a state that no callback has presented to the
\* state check stays in oauthStates, however long ago its TTL elapsed.
AbandonedStateStays ==
  \A s \in DOMAIN issued :
    (\A r \in Req : ~(ReachedStateCheck(r) /\ cb[r].q.state = s)) => s \in DOMAIN oauthStates

\* C22: a callback is given a session token only if the state it presented
\* had been stored by an earlier /login, had not expired when it was
\* presented, and was let through the state check for this callback alone.
C22_SessionOnlyAfterLogin ==
  \A r \in Req :
    Accepted(r) =>
      /\ cb[r].known /\ cb[r].q.state \in DOMAIN issued
      /\ ~cb[r].expired
      /\ cb[r].passed
      /\ \A p \in Req : (p # r /\ cb[p].passed) => cb[p].q.state # cb[r].q.state

C22_Witness ==
  \E r, p \in Req :
    /\ p # r
    /\ Accepted(r) /\ cb[r].known /\ ~cb[r].expired
    /\ Done(p) /\ cb[p].q.state = cb[r].q.state /\ Truthy(cb[p].q.code)
    /\ cb[p].res.session = {}

\* C23: a state that passed the state check is out of oauthStates from then
\* on, while the code exchange is under way and whatever the exchange, the
\* profile request, the allow-list check or the account step end with; a
\* later callback that presents it again is redirected with invalid_state.
C23_ConsumedStateNeverRestored ==
  \A r \in Req :
    cb[r].passed =>
      /\ cb[r].q.state \notin DOMAIN oauthStates
      /\ \A p \in Req :
            (p > r /\ ReachedStateCheck(p) /\ cb[p].q.state = cb[r].q.state) =>
              ~cb[p].passed /\ cb[p].res = RedirectError("invalid_state")

\* The first callback passed the state check and then failed; the same
\* callback was sent again and was turned away.
C23_Witness ==
  \E r1, r2 \in Req :
    /\ r1 < r2
    /\ cb[r1].passed /\ Done(r1) /\ cb[r1].res.session = {}
    /\ cb[r2].q = cb[r1].q
    /\ cb[r2].res = RedirectError("invalid_state")

-----------------------------------------------------------------------------
(* The calls to the provider, checked under SpecLogout *)

\* C24: the environment does not change, and while the client is
\* unconfigured no request is sent to the provider: no code exchange, no
\* profile request, no revocation. A callback sends the code exchange only
\* for a state that /login issued, which takes a configured client, and
\* /logout sends the revocation only with a configured client and a token.
C24_NoProviderCallWhileUnconfigured ==
  /\ Unconfigured => /\ \A r \in Req : cb[r].calls = 0
                     /\ lo.calls = 0 /\ lo.revoke = ""
                     /\ DOMAIN issued = {}
  /\ \A r \in Req : cb[r].calls > 0 => cb[r].known /\ ~Unconfigured
  /\ lo.calls > 0 => ~Unconfigured /\ ~NoTokenPart(lo.header)

C24_Witness ==
  /\ Unconfigured
  /\ loginRes.status = 500
  /\ \E r \in Req : /\ Done(r) /\ Truthy(cb[r].q.code) /\ Truthy(cb[r].q.state)
                     /\ cb[r].res = RedirectError("invalid_state")
  /\ lo.pc = "done" /\ lo.header = Header(<<Text("Bearer"), Space, Text("x")>>)
  /\ lo.res = LogoutSuccess

====
